---- MODULE Spec2Model ----
(***************************************************************************)
(* Model of the orphaned secret / service reaper (final version of the     *)
(* program): main, cleanupAllNamespaces with its worker pool and channels, *)
(* gatherPods, cleanupSecrets and cleanupServices.                         *)
(*                                                                         *)
(* Resource names are sequences of one-character strings, so that          *)
(* strings.Contains and strings.Split are computed on the characters.      *)
(*                                                                         *)
(* The namespaces of the cluster are the ones carrying the                 *)
(* is-customer-resource label.  Every Cluster Gateway call may fail; the   *)
(* calls that failed are recorded in failedCalls.  One call of gatherPods, *)
(* cleanupSecrets or cleanupServices is one step: it reads and deletes     *)
(* only objects of its own namespace, which no other goroutine touches,    *)
(* and the goroutines meet only on namespaceChan, errChan and wg.          *)
(*                                                                         *)
(* The last part of the module models the resource-level variant of        *)
(* src/main.go, whose cleanupSecrets runs its workers on one namespace     *)
(* (ResourceSpec).                                                         *)
(***************************************************************************)
EXTENDS Integers, Sequences, FiniteSets, Bags, TLC

(***************************************************************************)
(* Bounds of the model.                                                    *)
(***************************************************************************)
\* Largest number of eligible namespaces returned by the namespace list.
MaxNamespaces == 2

\* Largest worker count of a run.  The program starts numWorkers = 15
\* workers; the model runs the same pool with 1..MaxWorkers workers, which
\* covers both fewer and more workers than namespaces.
MaxWorkers == 2

\* Longest pod list and longest secret list of the namespace given with
\* -namespace.
MaxPods == 2

MaxSecrets == 3

(***************************************************************************)
(* String literals of the program.                                         *)
(***************************************************************************)
\* "-an-"
SepAn ==
  << "-", "a", "n", "-" >>

\* "root"
Root ==
  << "r", "o", "o", "t" >>

\* "default-token"
DefaultToken ==
  << "d", "e", "f", "a", "u", "l", "t", "-", "t", "o", "k", "e", "n" >>

\* "-certificate"
Certificate ==
  << "-", "c", "e", "r", "t", "i", "f", "i", "c", "a", "t", "e" >>

\* "an-config"
AnConfig ==
  << "a", "n", "-", "c", "o", "n", "f", "i", "g" >>

\* len(parts[0]) == 10
PrefixLen == 10

(***************************************************************************)
(* Names of the cluster objects used to build cluster states.              *)
(***************************************************************************)
\* "abcdefghij-an-123"
PodA ==
  << "a", "b", "c", "d", "e", "f", "g", "h", "i", "j", "-", "a", "n", "-", "1", "2", "3" >>

\* "klmnopqrst-an-9"
PodK ==
  << "k", "l", "m", "n", "o", "p", "q", "r", "s", "t", "-", "a", "n", "-", "9" >>

\* "short-an-1"
PodShort ==
  << "s", "h", "o", "r", "t", "-", "a", "n", "-", "1" >>

\* "abcdefghij-an-x-an-y"
PodTwice ==
  << "a", "b", "c", "d", "e", "f", "g", "h", "i", "j", "-", "a", "n", "-", "x", "-", "a", "n", "-", "y" >>

\* "abcdefghij-certificate"
SecA ==
  << "a", "b", "c", "d", "e", "f", "g", "h", "i", "j", "-", "c", "e", "r", "t", "i", "f", "i", "c", "a", "t", "e" >>

\* "zzzzzzzzzz-certificate"
SecZ ==
  << "z", "z", "z", "z", "z", "z", "z", "z", "z", "z", "-", "c", "e", "r", "t", "i", "f", "i", "c", "a", "t", "e" >>

\* "klmnopqrst-certificate"
SecK ==
  << "k", "l", "m", "n", "o", "p", "q", "r", "s", "t", "-", "c", "e", "r", "t", "i", "f", "i", "c", "a", "t", "e" >>

\* "root-certificate"
SecRoot ==
  << "r", "o", "o", "t", "-", "c", "e", "r", "t", "i", "f", "i", "c", "a", "t", "e" >>

\* "default-token-x7"
SecToken ==
  << "d", "e", "f", "a", "u", "l", "t", "-", "t", "o", "k", "e", "n", "-", "x", "7" >>

\* "db-password"
SecDb ==
  << "d", "b", "-", "p", "a", "s", "s", "w", "o", "r", "d" >>

\* "abcdefghij-an-config"
SvcA ==
  << "a", "b", "c", "d", "e", "f", "g", "h", "i", "j", "-", "a", "n", "-", "c", "o", "n", "f", "i", "g" >>

\* "zzzzzzzzzz-an-config"
SvcZ ==
  << "z", "z", "z", "z", "z", "z", "z", "z", "z", "z", "-", "a", "n", "-", "c", "o", "n", "f", "i", "g" >>

\* "xyz-an-config"
SvcX ==
  << "x", "y", "z", "-", "a", "n", "-", "c", "o", "n", "f", "i", "g" >>

\* "unrelated-service"
SvcU ==
  << "u", "n", "r", "e", "l", "a", "t", "e", "d", "-", "s", "e", "r", "v", "i", "c", "e" >>

(***************************************************************************)
(* strings.Contains, strings.Index and strings.Split on character          *)
(* sequences.                                                              *)
(***************************************************************************)
\* strings.Contains(s, substr)
Contains(s, substr) ==
  \E i \in 0..(Len(s) - Len(substr)) : SubSeq(s, i + 1, i + Len(substr)) = substr

\* 1-based position of the first occurrence of sep in s, 0 when there is none
Index(s, sep) ==
  LET hits == {i \in 1..(Len(s) - Len(sep) + 1) : SubSeq(s, i, i + Len(sep) - 1) = sep}
  IN  IF hits = {} THEN 0 ELSE CHOOSE i \in hits : \A j \in hits : i <= j

\* strings.Split(s, sep) for a non-empty sep: the pieces between the
\* successive non-overlapping occurrences of sep, left to right.
RECURSIVE Split(_, _)
Split(s, sep) ==
  LET i == Index(s, sep)
  IN  IF i = 0
      THEN << s >>
      ELSE << SubSeq(s, 1, i - 1) >> \o Split(SubSeq(s, i + Len(sep), Len(s)), sep)

(***************************************************************************)
(* gatherPods: the prefixes of the pods named <10 characters>-an-<rest>,   *)
(* in list order (a slice: duplicates are kept).                           *)
(***************************************************************************)
PodConforms(podName) ==
  LET parts == Split(podName, SepAn)
  IN  Len(parts) = 2 /\ Len(parts[1]) = PrefixLen

PodPrefixes(podNames) ==
  LET sel == SelectSeq(podNames, PodConforms)
  IN  [i \in 1..Len(sel) |-> Split(sel[i], SepAn)[1]]

(***************************************************************************)
(* Cluster Gateway calls and the errors they produce.  A call is named by  *)
(* its operation, namespace and object name; the error a function returns  *)
(* is identified with the call that failed.                                *)
(***************************************************************************)
NoName == << >>

Call(op, ns, name) == [op |-> op, ns |-> ns, name |-> name]

\* the nil error
Nil == Call("nil", 0, NoName)

\* a secret or a service of a namespace
Resource(kind, ns, name) == [kind |-> kind, ns |-> ns, name |-> name]

\* what one run of cleanupSecrets or cleanupServices did: the names it
\* printed "Deleting ..." for, the names it issued a delete call for, the
\* names whose delete call succeeded, and the error it returned
NoEffect == [logged |-> {}, calls |-> {}, removed |-> {}, err |-> Nil]

(***************************************************************************)
(* cleanupSecrets                                                          *)
(***************************************************************************)
\* SecretProtected without the "default-token" test
SecretProtectedRootOnly(name) ==
  Contains(name, Root)

\* if strings.Contains(secret.Name, "root") || strings.Contains(secret.Name, "default-token")
SecretProtected(name) ==
  Contains(name, Root) \/ Contains(name, DefaultToken)

\* The loop over podPrefixes: shouldDelete starts true and is cleared by the
\* first prefix for which the name lacks "-certificate" or contains the
\* prefix.  With no prefix the loop body never runs.
SecretShouldDelete(name, podPrefixes) ==
  \A i \in 1..Len(podPrefixes) :
    Contains(name, Certificate) /\ ~Contains(name, podPrefixes[i])

\* The loop over secrets.Items from item i on.  F is the set of calls that
\* fail.  A protected name breaks out of the loop over the secrets; a
\* failing delete returns its error at once.
RECURSIVE SecretsLoop(_, _, _, _, _, _)
SecretsLoop(items, i, podPrefixes, namespace, dry, F) ==
  IF i > Len(items)
  THEN NoEffect
  ELSE LET name == items[i]
           call == Call("DeleteSecret", namespace, name)
           rest == SecretsLoop(items, i + 1, podPrefixes, namespace, dry, F)
       IN  IF SecretProtected(name)
           THEN NoEffect
           ELSE IF ~SecretShouldDelete(name, podPrefixes)
           THEN rest
           ELSE IF dry
           THEN [rest EXCEPT !.logged = @ \cup {name}]
           ELSE IF call \in F
           THEN [logged |-> {name}, calls |-> {name}, removed |-> {}, err |-> call]
           ELSE [logged  |-> rest.logged \cup {name},
                 calls   |-> rest.calls \cup {name},
                 removed |-> rest.removed \cup {name},
                 err     |-> rest.err]

\* CleanupSecrets that never consults dryRun before the Delete call
CleanupSecretsIgnoringDryRun(items, podPrefixes, namespace, dry, F) ==
  LET list == Call("ListSecrets", namespace, NoName)
  IN  IF list \in F
      THEN [NoEffect EXCEPT !.err = list]
      ELSE SecretsLoop(items, 1, podPrefixes, namespace, FALSE, F)

\* cleanupSecrets(clientset, podPrefixes, namespace, dryRun) on the secret
\* list items of the namespace
CleanupSecrets(items, podPrefixes, namespace, dry, F) ==
  LET list == Call("ListSecrets", namespace, NoName)
  IN  IF list \in F
      THEN [NoEffect EXCEPT !.err = list]
      ELSE SecretsLoop(items, 1, podPrefixes, namespace, dry, F)

(***************************************************************************)
(* cleanupServices                                                         *)
(***************************************************************************)
\* ServiceShouldDelete without the else branch that keeps the names lacking
\* "an-config"
ServiceShouldDeleteNoScope(name, podPrefixes) ==
  \A i \in 1..Len(podPrefixes) : ~Contains(name, podPrefixes[i])

\* shouldDelete of one service: only names with "an-config" are compared
\* with the prefixes, all others are kept
ServiceShouldDelete(name, podPrefixes) ==
  IF Contains(name, AnConfig)
  THEN \A i \in 1..Len(podPrefixes) : ~Contains(name, podPrefixes[i])
  ELSE FALSE

RECURSIVE ServicesLoop(_, _, _, _, _, _)
ServicesLoop(items, i, podPrefixes, namespace, dry, F) ==
  IF i > Len(items)
  THEN NoEffect
  ELSE LET name == items[i]
           call == Call("DeleteService", namespace, name)
           rest == ServicesLoop(items, i + 1, podPrefixes, namespace, dry, F)
       IN  IF ~ServiceShouldDelete(name, podPrefixes)
           THEN rest
           ELSE IF dry
           THEN [rest EXCEPT !.logged = @ \cup {name}]
           ELSE IF call \in F
           THEN [logged |-> {name}, calls |-> {name}, removed |-> {}, err |-> call]
           ELSE [logged  |-> rest.logged \cup {name},
                 calls   |-> rest.calls \cup {name},
                 removed |-> rest.removed \cup {name},
                 err     |-> rest.err]

\* cleanupServices(clientset, podPrefixes, namespace, dryRun)
CleanupServices(items, podPrefixes, namespace, dry, F) ==
  LET list == Call("ListServices", namespace, NoName)
  IN  IF list \in F
      THEN [NoEffect EXCEPT !.err = list]
      ELSE ServicesLoop(items, 1, podPrefixes, namespace, dry, F)

(***************************************************************************)
(* State                                                                   *)
(***************************************************************************)
VARIABLES
  allNamespaces,  \* the -all flag
  nsFlag,         \* the -namespace flag (0: not given)
  dryRun,         \* the -dry-run flag
  numWorkers,     \* number of workers started by cleanupAllNamespaces
  cluster,        \* namespace -> its pods, secrets and services at the start
  removed,        \* resources deleted from the cluster by this run
  deleteCalls,    \* resources a delete call was issued for
  repeatedCalls,  \* resources a further delete call was issued for
  logged,         \* resources "Deleting ..." was printed for
  listCalls,      \* list calls issued
  failedCalls,    \* calls that returned an error
  mainPc,         \* position of main / cleanupAllNamespaces
  mainPods,       \* main's pods (the -namespace branch)
  result,         \* the error main got back (Nil: none)
  workers,        \* the worker goroutines: a bag of positions and locals
  nsItems,        \* namespaces.Items of the second namespace list
  prodPc,         \* the goroutine that feeds namespaceChan
  prodIdx,        \* index of the next namespace it sends
  closerPc,       \* the goroutine that waits for wg and closes errChan
  wg,             \* counter of the WaitGroup
  received,       \* non-nil errors the collecting loop has received
  taken,          \* namespaces received from namespaceChan, in order
  secretItems     \* secrets.Items fed to secretChan (src/main.go)

vars ==
  << allNamespaces, nsFlag, dryRun, numWorkers, cluster, removed, deleteCalls,
     repeatedCalls, logged, listCalls, failedCalls, mainPc, mainPods, result,
     workers, nsItems, prodPc, prodIdx, closerPc, wg, received, taken,
     secretItems >>

clusterVars == << allNamespaces, nsFlag, dryRun, numWorkers, cluster >>

gatewayVars ==
  << removed, deleteCalls, repeatedCalls, logged, listCalls, failedCalls >>

poolVars ==
  << workers, nsItems, prodPc, prodIdx, closerPc, wg, received, taken >>

(***************************************************************************)
(* Cluster states the runs start from.                                     *)
(***************************************************************************)
\* the sequences of at most n distinct elements of S
SeqsNoDup(S, n) ==
  {s \in UNION {[1..k -> S] : k \in 0..n} :
     \A i, j \in 1..Len(s) : i # j => s[i] # s[j]}

NamespaceOf(pods, secrets, services) ==
  [pods |-> pods, secrets |-> secrets, services |-> services]

\* Namespaces of a run with -all: one with a live workload and orphans of
\* both kinds, one with another workload and a non-conforming pod, and one
\* with no conforming pod.
Profiles ==
  << NamespaceOf(<< PodA >>, << SecA, SecZ, SecK >>, << SvcA, SvcZ, SvcX >>),
     NamespaceOf(<< PodK, PodShort >>, << SecDb, SecA, SecK >>, << SvcU, SvcA >>),
     NamespaceOf(<< PodShort >>, << SecDb, SecToken, SecZ >>, << SvcX, SvcU >>) >>

\* The clusters of n eligible namespaces: the profiles in cyclic order, from
\* any first one.
Clusters(n) ==
  { [i \in 1..n |-> Profiles[((s + i) % Len(Profiles)) + 1]] : s \in 1..Len(Profiles) }

PodPool == {PodA, PodK, PodShort, PodTwice}

SecretPool == {SecA, SecZ, SecRoot, SecToken, SecDb}

\* The namespace named by -namespace: any pod list and any secret list
\* within the bounds.
TargetNamespaces ==
  { NamespaceOf(p, s, << SvcX, SvcU >>) :
      p \in SeqsNoDup(PodPool, MaxPods), s \in SeqsNoDup(SecretPool, MaxSecrets) }

(***************************************************************************)
(* The Cluster Gateway as the program sees it.                             *)
(***************************************************************************)
\* ListPods answering with the pods of the first namespace for every
\* namespace
ListPodsOfFirst(namespace) == cluster[1].pods

\* Pods(namespace).List
ListPods(namespace) == cluster[namespace].pods

\* Secrets(namespace).List: the secrets not deleted so far
ListSecrets(namespace) ==
  SelectSeq(cluster[namespace].secrets,
            LAMBDA n : Resource("secret", namespace, n) \notin removed)

\* Services(namespace).List: the services not deleted so far
ListServices(namespace) ==
  SelectSeq(cluster[namespace].services,
            LAMBDA n : Resource("service", namespace, n) \notin removed)

\* Namespaces().List with the is-customer-resource label selector
ListNamespaces == [i \in 1..Len(cluster) |-> i]

\* the calls cleanupSecrets / cleanupServices can issue on a list
SecretCalls(namespace, items) ==
  {Call("ListSecrets", namespace, NoName)}
    \cup {Call("DeleteSecret", namespace, items[i]) : i \in 1..Len(items)}

ServiceCalls(namespace, items) ==
  {Call("ListServices", namespace, NoName)}
    \cup {Call("DeleteService", namespace, items[i]) : i \in 1..Len(items)}

\* Apply with Delete calls that succeed without removing the object (the
\* calls name another object than the one classified)
ApplyWithoutRemoval(kind, namespace, listCall, eff) ==
  /\ removed' = removed
  /\ deleteCalls' = deleteCalls \cup {Resource(kind, namespace, n) : n \in eff.calls}
  /\ repeatedCalls' = repeatedCalls
       \cup ({Resource(kind, namespace, n) : n \in eff.calls} \cap deleteCalls)
  /\ logged' = logged \cup {Resource(kind, namespace, n) : n \in eff.logged}
  /\ listCalls' = listCalls \cup {listCall}
  /\ failedCalls' = failedCalls \cup (IF eff.err = Nil THEN {} ELSE {eff.err})

\* the effect of one cleanupSecrets / cleanupServices call on the gateway
Apply(kind, namespace, listCall, eff) ==
  /\ removed' = removed \cup {Resource(kind, namespace, n) : n \in eff.removed}
  /\ deleteCalls' = deleteCalls \cup {Resource(kind, namespace, n) : n \in eff.calls}
  /\ repeatedCalls' = repeatedCalls
       \cup ({Resource(kind, namespace, n) : n \in eff.calls} \cap deleteCalls)
  /\ logged' = logged \cup {Resource(kind, namespace, n) : n \in eff.logged}
  /\ listCalls' = listCalls \cup {listCall}
  /\ failedCalls' = failedCalls \cup (IF eff.err = Nil THEN {} ELSE {eff.err})

(***************************************************************************)
(* Init: the flags are parsed and the client is built.                     *)
(***************************************************************************)
\* The workers run the same function literal and are told apart by nothing
\* but their state, so the pool is the bag of the workers' states.  A worker
\* state holds its position, its namespace, its pods and the error it is
\* about to send.
Waiting == [pc |-> "recv", ns |-> 0, pods |-> << >>, err |-> Nil]

Done == [pc |-> "done", ns |-> 0, pods |-> << >>, err |-> Nil]

\* the pool after one worker in state r has moved to state r2
Moved(r, r2) == (workers (-) SetToBag({r})) (+) SetToBag({r2})

Workers == BagToSet(workers)

Init ==
  /\ dryRun \in BOOLEAN
  /\ \/ /\ allNamespaces = TRUE
        /\ nsFlag = 0
        /\ numWorkers \in 1..MaxWorkers
        /\ \E n \in 0..MaxNamespaces : cluster \in Clusters(n)
        /\ mainPc = "list1"
     \/ /\ allNamespaces = FALSE
        /\ nsFlag = 1
        /\ numWorkers = 1
        /\ \E t \in TargetNamespaces : cluster = << t >>
        /\ mainPc = "gather"
  /\ removed = {}
  /\ deleteCalls = {}
  /\ repeatedCalls = {}
  /\ logged = {}
  /\ listCalls = {}
  /\ failedCalls = {}
  /\ mainPods = << >>
  /\ result = Nil
  /\ workers = EmptyBag
  /\ nsItems = << >>
  /\ prodPc = "none"
  /\ prodIdx = 0
  /\ closerPc = "none"
  /\ wg = 0
  /\ received = {}
  /\ taken = << >>
  /\ secretItems = << >>

(***************************************************************************)
(* main, -namespace branch: gatherPods, then cleanupSecrets, each error    *)
(* ending the process with exit code 1.                                    *)
(***************************************************************************)
\* pods, err := gatherPods(clientset, namespace)
MainGatherPods ==
  /\ mainPc = "gather"
  /\ LET call == Call("ListPods", nsFlag, NoName)
     IN  /\ listCalls' = listCalls \cup {call}
         /\ \/ /\ failedCalls' = failedCalls \cup {call}
               /\ result' = call
               /\ mainPc' = "exited"
               /\ UNCHANGED mainPods
            \/ /\ mainPods' = PodPrefixes(ListPods(nsFlag))
               /\ mainPc' = "secrets"
               /\ UNCHANGED << failedCalls, result >>
  /\ UNCHANGED << clusterVars, secretItems, removed, deleteCalls, repeatedCalls,
                  logged, poolVars >>

\* MainCleanupSecrets that only prints the error of cleanupSecrets and ends
\* with success
MainCleanupSecretsIgnoringError ==
  /\ mainPc = "secrets"
  /\ \E F \in SUBSET SecretCalls(nsFlag, ListSecrets(nsFlag)) :
       LET eff == CleanupSecrets(ListSecrets(nsFlag), mainPods, nsFlag, dryRun, F)
       IN  Apply("secret", nsFlag, Call("ListSecrets", nsFlag, NoName), eff)
  /\ mainPc' = "exited"
  /\ UNCHANGED << clusterVars, secretItems, mainPods, result, poolVars >>

\* err = cleanupSecrets(clientset, pods, namespace, dryRun), then the
\* process ends
MainCleanupSecrets ==
  /\ mainPc = "secrets"
  /\ \E F \in SUBSET SecretCalls(nsFlag, ListSecrets(nsFlag)) :
       LET eff == CleanupSecrets(ListSecrets(nsFlag), mainPods, nsFlag, dryRun, F)
       IN  /\ Apply("secret", nsFlag, Call("ListSecrets", nsFlag, NoName), eff)
           /\ result' = eff.err
  /\ mainPc' = "exited"
  /\ UNCHANGED << clusterVars, secretItems, mainPods, poolVars >>

(***************************************************************************)
(* cleanupAllNamespaces                                                    *)
(***************************************************************************)
\* The first Namespaces().List; on success the numWorkers workers are
\* started (wg.Add(1) each), all waiting on namespaceChan.
ListNamespacesAndStartWorkers ==
  /\ mainPc = "list1"
  /\ LET call == Call("ListNamespaces", 1, NoName)
     IN  /\ listCalls' = listCalls \cup {call}
         /\ \/ /\ failedCalls' = failedCalls \cup {call}
               /\ result' = call
               /\ mainPc' = "returned"
               /\ UNCHANGED << workers, wg >>
            \/ /\ workers' = [r \in {Waiting} |-> numWorkers]
               /\ wg' = numWorkers
               /\ mainPc' = "list2"
               /\ UNCHANGED << failedCalls, result >>
  /\ UNCHANGED << clusterVars, secretItems, removed, deleteCalls, repeatedCalls,
                  logged, mainPods,
                  nsItems, prodPc, prodIdx, closerPc, received, taken >>

\* The second Namespaces().List; on success the feeding goroutine and the
\* wait-and-close goroutine are started and main enters the collecting loop.
ListNamespacesAndStartFeeder ==
  /\ mainPc = "list2"
  /\ LET call == Call("ListNamespaces", 2, NoName)
     IN  /\ listCalls' = listCalls \cup {call}
         /\ \/ /\ failedCalls' = failedCalls \cup {call}
               /\ result' = call
               /\ mainPc' = "returned"
               /\ UNCHANGED << nsItems, prodPc, prodIdx, closerPc >>
            \/ /\ nsItems' = ListNamespaces
               /\ prodPc' = "send"
               /\ prodIdx' = 1
               /\ closerPc' = "wait"
               /\ mainPc' = "collect"
               /\ UNCHANGED << failedCalls, result >>
  /\ UNCHANGED << clusterVars, secretItems, removed, deleteCalls, repeatedCalls,
                  logged, mainPods,
                  workers, wg, received, taken >>

\* the process is alive: goroutines run until main has exited
Alive == mainPc # "exited"

\* WorkerReceive with a send that every receiver sees: the feeding goroutine
\* stays on the namespace it has just handed over
WorkerReceiveWithoutAdvance(r) ==
  /\ Alive
  /\ r.pc = "recv"
  /\ prodPc = "send"
  /\ prodIdx <= Len(nsItems)
  /\ workers' = Moved(r, [r EXCEPT !.pc = "gather", !.ns = nsItems[prodIdx]])
  /\ taken' = Append(taken, nsItems[prodIdx])
  /\ UNCHANGED << clusterVars, secretItems, gatewayVars, mainPc, mainPods, result,
                  nsItems, prodPc, prodIdx, closerPc, wg, received >>

\* namespaceChan <- namespace, received by "for namespace := range
\* namespaceChan" of a waiting worker (the channel is unbuffered)
WorkerReceive(r) ==
  /\ Alive
  /\ r.pc = "recv"
  /\ prodPc = "send"
  /\ prodIdx <= Len(nsItems)
  /\ workers' = Moved(r, [r EXCEPT !.pc = "gather", !.ns = nsItems[prodIdx]])
  /\ prodIdx' = prodIdx + 1
  /\ taken' = Append(taken, nsItems[prodIdx])
  /\ UNCHANGED << clusterVars, secretItems, gatewayVars, mainPc, mainPods, result,
                  nsItems, prodPc, closerPc, wg, received >>

\* FeederClose without the deferred close(namespaceChan): the goroutine ends
\* and leaves the channel open
FeederEndsWithoutClose ==
  /\ Alive
  /\ prodPc = "send"
  /\ prodIdx > Len(nsItems)
  /\ prodPc' = "leftOpen"
  /\ UNCHANGED << clusterVars, secretItems, gatewayVars, mainPc, mainPods, result, workers,
                  nsItems, prodIdx, closerPc, wg, received, taken >>

\* defer close(namespaceChan), after the last namespace was sent
FeederClose ==
  /\ Alive
  /\ prodPc = "send"
  /\ prodIdx > Len(nsItems)
  /\ prodPc' = "done"
  /\ UNCHANGED << clusterVars, secretItems, gatewayVars, mainPc, mainPods, result, workers,
                  nsItems, prodIdx, closerPc, wg, received, taken >>

\* the range over the closed namespaceChan ends: the worker returns and its
\* deferred wg.Done() runs
WorkerExit(r) ==
  /\ Alive
  /\ r.pc = "recv"
  /\ prodPc = "done"
  /\ workers' = Moved(r, Done)
  /\ wg' = wg - 1
  /\ UNCHANGED << clusterVars, secretItems, gatewayVars, mainPc, mainPods, result, nsItems,
                  prodPc, prodIdx, closerPc, received, taken >>

\* WorkerGatherPods that skips a failed pod list silently: the worker goes on
\* with no prefix
WorkerGatherPodsIgnoringError(r) ==
  /\ Alive
  /\ r.pc = "gather"
  /\ LET call == Call("ListPods", r.ns, NoName)
     IN  /\ listCalls' = listCalls \cup {call}
         /\ \/ /\ failedCalls' = failedCalls \cup {call}
               /\ workers' = Moved(r, [r EXCEPT !.pc = "secrets", !.pods = << >>])
            \/ /\ workers' = Moved(r, [r EXCEPT !.pc = "secrets",
                                                 !.pods = PodPrefixes(ListPods(r.ns))])
               /\ UNCHANGED failedCalls
  /\ UNCHANGED << clusterVars, secretItems, removed, deleteCalls, repeatedCalls,
                  logged, mainPc, mainPods,
                  result, nsItems, prodPc, prodIdx, closerPc, wg, received, taken >>

\* pods, err := gatherPods(clientset, namespace.Name)
WorkerGatherPods(r) ==
  /\ Alive
  /\ r.pc = "gather"
  /\ LET call == Call("ListPods", r.ns, NoName)
     IN  /\ listCalls' = listCalls \cup {call}
         /\ \/ /\ failedCalls' = failedCalls \cup {call}
               /\ workers' = Moved(r, [r EXCEPT !.pc = "sendPodsErr", !.err = call])
            \/ /\ workers' = Moved(r, [r EXCEPT !.pc = "secrets",
                                                 !.pods = PodPrefixes(ListPods(r.ns))])
               /\ UNCHANGED failedCalls
  /\ UNCHANGED << clusterVars, secretItems, removed, deleteCalls, repeatedCalls,
                  logged, mainPc, mainPods,
                  result, nsItems, prodPc, prodIdx, closerPc, wg, received, taken >>

\* the call cleanupSecrets(clientset, pods, namespace.Name, dryRun); its
\* result is then to be sent on errChan
WorkerCleanupSecrets(r) ==
  /\ Alive
  /\ r.pc = "secrets"
  /\ \E F \in SUBSET SecretCalls(r.ns, ListSecrets(r.ns)) :
       LET eff == CleanupSecrets(ListSecrets(r.ns), r.pods, r.ns, dryRun, F)
       IN  /\ Apply("secret", r.ns, Call("ListSecrets", r.ns, NoName), eff)
           /\ workers' = Moved(r, [r EXCEPT !.pc = "sendSecretsErr", !.err = eff.err])
  /\ UNCHANGED << clusterVars, secretItems, mainPc, mainPods, result, nsItems, prodPc,
                  prodIdx, closerPc, wg, received, taken >>

\* the call cleanupServices(clientset, pods, namespace.Name, dryRun)
WorkerCleanupServices(r) ==
  /\ Alive
  /\ r.pc = "services"
  /\ \E F \in SUBSET ServiceCalls(r.ns, ListServices(r.ns)) :
       LET eff == CleanupServices(ListServices(r.ns), r.pods, r.ns, dryRun, F)
       IN  /\ Apply("service", r.ns, Call("ListServices", r.ns, NoName), eff)
           /\ workers' = Moved(r, [r EXCEPT !.pc = "sendServicesErr", !.err = eff.err])
  /\ UNCHANGED << clusterVars, secretItems, mainPc, mainPods, result, nsItems, prodPc,
                  prodIdx, closerPc, wg, received, taken >>

\* the positions at which a worker sends on errChan
SendPcs == {"sendPodsErr", "sendSecretsErr", "sendServicesErr"}

\* The worker once its send on errChan was taken: after the pod error it
\* returns, after the result of cleanupSecrets it calls cleanupServices,
\* after the result of cleanupServices it waits for the next namespace (a
\* new iteration: namespace and pods are fresh variables).
AfterSend(r) ==
  CASE r.pc = "sendPodsErr" -> Done
    [] r.pc = "sendSecretsErr" -> [r EXCEPT !.pc = "services", !.err = Nil]
    [] r.pc = "sendServicesErr" -> Waiting

\* wg.Done() runs when the worker function returns
WgAfterSend(r, n) == IF AfterSend(r).pc = "done" THEN n - 1 ELSE n

\* errChan <- err of a worker, received by "for err := range errChan" of the
\* collecting loop (the channel is unbuffered); a non-nil error makes
\* cleanupAllNamespaces return it
WorkerSendAndCollect(r) ==
  /\ Alive
  /\ mainPc = "collect"
  /\ r.pc \in SendPcs
  /\ workers' = Moved(r, AfterSend(r))
  /\ wg' = WgAfterSend(r, wg)
  /\ IF r.err # Nil
     THEN /\ received' = received \cup {r.err}
          /\ result' = r.err
          /\ mainPc' = "returned"
     ELSE UNCHANGED << received, result, mainPc >>
  /\ UNCHANGED << clusterVars, secretItems, gatewayVars, mainPods, nsItems, prodPc, prodIdx,
                  closerPc, taken >>

\* WaitAndClose without wg.Wait(): errChan is closed while workers run
WaitAndCloseWithoutWait ==
  /\ Alive
  /\ closerPc = "wait"
  /\ closerPc' = "done"
  /\ UNCHANGED << clusterVars, secretItems, gatewayVars, mainPc, mainPods, result, workers,
                  nsItems, prodPc, prodIdx, wg, received, taken >>

\* wg.Wait() returns and errChan is closed
WaitAndClose ==
  /\ Alive
  /\ closerPc = "wait"
  /\ wg = 0
  /\ closerPc' = "done"
  /\ UNCHANGED << clusterVars, secretItems, gatewayVars, mainPc, mainPods, result, workers,
                  nsItems, prodPc, prodIdx, wg, received, taken >>

\* the range over the closed errChan ends: return nil
CollectEnd ==
  /\ mainPc = "collect"
  /\ closerPc = "done"
  /\ mainPc' = "returned"
  /\ UNCHANGED << clusterVars, secretItems, gatewayVars, mainPods, result, poolVars >>

\* main after cleanupAllNamespaces: os.Exit(1) on an error, else main
\* returns; either way the process and all its goroutines end
MainExit ==
  /\ mainPc = "returned"
  /\ mainPc' = "exited"
  /\ UNCHANGED << clusterVars, secretItems, gatewayVars, mainPods, result, poolVars >>

\* exit code of the process
ExitCode == IF result = Nil THEN 0 ELSE 1

Next ==
  \/ MainGatherPods
  \/ MainCleanupSecrets
  \/ ListNamespacesAndStartWorkers
  \/ ListNamespacesAndStartFeeder
  \/ FeederClose
  \/ WaitAndClose
  \/ CollectEnd
  \/ MainExit
  \/ \E r \in Workers : WorkerReceive(r)
  \/ \E r \in Workers : WorkerExit(r)
  \/ \E r \in Workers : WorkerGatherPods(r)
  \/ \E r \in Workers : WorkerCleanupSecrets(r)
  \/ \E r \in Workers : WorkerCleanupServices(r)
  \/ \E r \in Workers : WorkerSendAndCollect(r)

Spec == Init /\ [][Next]_vars

\* Some goroutine that can run does run.
FairSpec == Spec /\ WF_vars(Next)

(***************************************************************************)
(* Properties                                                              *)
(***************************************************************************)
Secrets(rs) == {r \in rs : r.kind = "secret"}

Services(rs) == {r \in rs : r.kind = "service"}

Returned == mainPc \in {"returned", "exited"}

\* the prefixes gatherPods derives from the pods of a namespace
PrefixesOf(ns) == PodPrefixes(cluster[ns].pods)

\* C1: cleanupSecrets issues no delete call and prints no "Deleting" line
\* for a secret whose name lacks "-certificate", whatever the prefix set.
C1_OnlyCertificateSecrets ==
  \A r \in Secrets(deleteCalls \cup logged) : Contains(r.name, Certificate)

\* C9: cleanupSecrets issues no delete call for a secret whose name contains
\* "root" or "default-token".
C9_ProtectedSecretsKept ==
  \A r \in Secrets(deleteCalls) :
    ~Contains(r.name, Root) /\ ~Contains(r.name, DefaultToken)

\* a secret list with a "default-token" name was cleaned with an empty prefix
\* set and a delete call was issued for another secret of that list, and
\* likewise a list with a "root" name
C9_Witness ==
  \A p \in {Root, DefaultToken} :
    \E ns \in DOMAIN cluster :
      /\ PrefixesOf(ns) = << >>
      /\ \E i \in 1..Len(cluster[ns].secrets) : Contains(cluster[ns].secrets[i], p)
      /\ \E r \in Secrets(deleteCalls) : r.ns = ns

\* C10: cleanupServices issues no delete call for a service whose name lacks
\* "an-config".
C10_OnlyAnConfigServices ==
  \A r \in Services(deleteCalls) : Contains(r.name, AnConfig)

\* a service list with a name without "an-config" was cleaned with an empty
\* prefix set and a delete call was issued for another service of that list
C10_Witness ==
  \E ns \in DOMAIN cluster :
    /\ PrefixesOf(ns) = << >>
    /\ \E i \in 1..Len(cluster[ns].services) :
         ~Contains(cluster[ns].services[i], AnConfig)
    /\ \E r \in Services(deleteCalls) : r.ns = ns

\* C8: a delete call is issued for a resource of namespace ns only if its
\* name contains none of the prefixes of the pods of ns.
C8_DeleteOnlyUnclaimed ==
  \A r \in deleteCalls :
    \A i \in 1..Len(PrefixesOf(r.ns)) : ~Contains(r.name, PrefixesOf(r.ns)[i])

\* a delete call was issued for a resource whose name contains a prefix of
\* the pods of another namespace
C8_Witness ==
  \E r \in deleteCalls :
    \E m \in DOMAIN cluster \ {r.ns} :
      \E i \in 1..Len(PrefixesOf(m)) : Contains(r.name, PrefixesOf(m)[i])

\* cleanupSecrets / cleanupServices ran on namespace ns and got its list
SecretsCleaned(ns) ==
  /\ Call("ListSecrets", ns, NoName) \in listCalls
  /\ Call("ListSecrets", ns, NoName) \notin failedCalls

ServicesCleaned(ns) ==
  /\ Call("ListServices", ns, NoName) \in listCalls
  /\ Call("ListServices", ns, NoName) \notin failedCalls

\* the names cleanupSecrets / cleanupServices decides to delete in namespace
\* ns when no call fails
SecretsToDelete(ns) ==
  CleanupSecrets(cluster[ns].secrets, PrefixesOf(ns), ns, FALSE, {}).calls

ServicesToDelete(ns) ==
  CleanupServices(cluster[ns].services, PrefixesOf(ns), ns, FALSE, {}).calls

\* C2: in live mode a failing delete does not abort the rest of the
\* namespace: once cleanupSecrets (cleanupServices) has run on a namespace,
\* a delete call was issued for every secret (service) it classifies DELETE.
C2_FailedDeleteDoesNotAbort ==
  \A ns \in DOMAIN cluster :
    /\ ~dryRun /\ SecretsCleaned(ns)
         => \A n \in SecretsToDelete(ns) : Resource("secret", ns, n) \in deleteCalls
    /\ ~dryRun /\ ServicesCleaned(ns)
         => \A n \in ServicesToDelete(ns) : Resource("service", ns, n) \in deleteCalls

\* the failures of the calls made for the namespaces (by the workers)
WorkerFailures == {f \in failedCalls : f.op # "ListNamespaces"}

\* the errors cleanupAllNamespaces reports
Reported == {result} \ {Nil}

\* C3: when the run with -all has ended, every list failure and every delete
\* failure that occurred was received by the collecting loop and is part of
\* the reported result.
C3_AllErrorsReported ==
  allNamespaces /\ mainPc = "exited"
    => WorkerFailures \subseteq received /\ WorkerFailures \subseteq Reported

\* a list call of namespace ns failed
ListFailed(ns) ==
  \E f \in failedCalls :
    f.ns = ns /\ f.op \in {"ListPods", "ListSecrets", "ListServices"}

\* the pods, secrets and services of namespace ns were listed and every
\* resource classified DELETE has had its delete call (live mode)
Reaped(ns) ==
  /\ Call("ListPods", ns, NoName) \in listCalls
  /\ SecretsCleaned(ns)
  /\ ServicesCleaned(ns)
  /\ ~dryRun =>
       /\ \A n \in SecretsToDelete(ns) : Resource("secret", ns, n) \in deleteCalls
       /\ \A n \in ServicesToDelete(ns) : Resource("service", ns, n) \in deleteCalls

\* C4: when the run with -all has ended and a list call failed for one
\* namespace, every other namespace, none of whose own calls failed, was
\* reaped.
C4_OtherNamespacesReaped ==
  allNamespaces /\ mainPc = "exited"
    => \A m \in DOMAIN cluster :
         ListFailed(m)
           => \A ns \in DOMAIN cluster \ {m} :
                (\A f \in failedCalls : f.ns # ns \/ f.op = "ListNamespaces")
                  => Reaped(ns)

\* A worker in state r can never run again: it waits to send on errChan
\* after the collecting loop has ended, or waits on namespaceChan that
\* nobody feeds or closes because cleanupAllNamespaces returned before
\* starting the feeding goroutine.
WorkerLeaked(r) ==
  /\ Returned
  /\ \/ r.pc \in SendPcs
     \/ r.pc = "recv" /\ prodPc = "none"

\* The feeding goroutine waits to send a namespace and every worker has
\* returned or is leaked.
FeederLeaked ==
  /\ Returned
  /\ prodPc = "send"
  /\ prodIdx <= Len(nsItems)
  /\ \A r \in Workers : r.pc = "done" \/ WorkerLeaked(r)

\* C5: once cleanupAllNamespaces has returned, no worker and no feeding
\* goroutine is left blocked forever on errChan or namespaceChan.
C5_NoGoroutineLeak ==
  ~FeederLeaked /\ \A r \in Workers : ~WorkerLeaked(r)

\* C6: with fair scheduling cleanupAllNamespaces returns in every run, for
\* any number of namespaces and any failing calls.
C6_AlwaysReturns ==
  allNamespaces => <>Returned

\* cleanupAllNamespaces has returned nil after fewer workers than namespaces
\* reaped them all
C6_Witness ==
  /\ allNamespaces
  /\ mainPc = "returned"
  /\ result = Nil
  /\ Len(cluster) > numWorkers
  /\ \A ns \in DOMAIN cluster : ServicesCleaned(ns)

\* The outcome of the run with -all and one worker in which the process
\* ends as soon as cleanupAllNamespaces has returned, from namespace ns on:
\* the worker reaps the namespaces in list order and the first error it
\* sends ends the run.  F is the set of calls that fail, deleted the
\* resources deleted so far.
RECURSIVE SequentialRun(_, _, _)
SequentialRun(ns, F, deleted) ==
  IF ns > Len(cluster)
  THEN [deleted |-> deleted, errors |-> {}]
  ELSE IF Call("ListPods", ns, NoName) \in F
  THEN [deleted |-> deleted, errors |-> {Call("ListPods", ns, NoName)}]
  ELSE LET s  == CleanupSecrets(cluster[ns].secrets, PrefixesOf(ns), ns, dryRun, F)
           d1 == deleted \cup {Resource("secret", ns, n) : n \in s.removed}
           v  == CleanupServices(cluster[ns].services, PrefixesOf(ns), ns, dryRun, F)
           d2 == d1 \cup {Resource("service", ns, n) : n \in v.removed}
       IN  IF s.err # Nil
           THEN [deleted |-> d1, errors |-> {s.err}]
           ELSE IF v.err # Nil
           THEN [deleted |-> d2, errors |-> {v.err}]
           ELSE SequentialRun(ns + 1, F, d2)

\* the outcome of that run when exactly the calls of F fail
SequentialOutcome(F) ==
  IF Call("ListNamespaces", 1, NoName) \in F
  THEN [deleted |-> {}, errors |-> {Call("ListNamespaces", 1, NoName)}]
  ELSE IF Call("ListNamespaces", 2, NoName) \in F
  THEN [deleted |-> {}, errors |-> {Call("ListNamespaces", 2, NoName)}]
  ELSE SequentialRun(1, F, {})

\* C7: the deleted resources and the reported errors of a run with -all
\* depend only on the cluster and on the calls that fail, not on the number
\* of workers or the interleaving: every run in which exactly the calls of
\* failedCalls fail ends with the outcome of the one-worker run with these
\* failing calls.
C7_OutcomeIndependentOfWorkers ==
  allNamespaces /\ mainPc = "exited"
    => /\ removed = SequentialOutcome(failedCalls).deleted
       /\ Reported = SequentialOutcome(failedCalls).errors

\* C11: with -dry-run no delete call is issued for any secret or service of
\* any namespace, with -all and with -namespace alike, and no secret and no
\* service leaves the cluster.
C11_DryRunDeletesNothing ==
  dryRun => /\ deleteCalls = {}
            /\ removed = {}
            /\ \A f \in failedCalls : f.op \notin {"DeleteSecret", "DeleteService"}
            /\ \A ns \in DOMAIN cluster :
                 /\ ListSecrets(ns) = cluster[ns].secrets
                 /\ ListServices(ns) = cluster[ns].services

\* a dry run that has printed "Deleting" lines for secrets and for services
C11_Witness ==
  /\ dryRun
  /\ mainPc = "exited"
  /\ Secrets(logged) # {}
  /\ Services(logged) # {}

\* the names of the resources of namespace ns in a set of resources
NamesIn(rs, ns) == {r.name : r \in {x \in rs : x.ns = ns}}

\* the names a dry-run pass over the same cluster state prints as to be
\* deleted
DryRunSecrets(ns) ==
  CleanupSecrets(cluster[ns].secrets, PrefixesOf(ns), ns, TRUE, {}).logged

DryRunServices(ns) ==
  CleanupServices(cluster[ns].services, PrefixesOf(ns), ns, TRUE, {}).logged

\* C12: a live pass decides DELETE (prints the line and issues the delete
\* call) for exactly the secrets and services a dry-run pass over the same
\* cluster state prints, also when some of the live delete calls fail.
C12_DryRunMatchesLive ==
  ~dryRun =>
    \A ns \in DOMAIN cluster :
      /\ SecretsCleaned(ns) =>
           /\ NamesIn(Secrets(logged), ns) = DryRunSecrets(ns)
           /\ NamesIn(Secrets(deleteCalls), ns) = DryRunSecrets(ns)
      /\ ServicesCleaned(ns) =>
           /\ NamesIn(Services(logged), ns) = DryRunServices(ns)
           /\ NamesIn(Services(deleteCalls), ns) = DryRunServices(ns)

\* the pod list call of namespace ns returned an error
PodListFailed(ns) == Call("ListPods", ns, NoName) \in failedCalls

\* C13: when the pod list call of a namespace fails, with -all or with
\* -namespace, cleanupSecrets and cleanupServices are not called for that
\* namespace (no secret list, no service list, no "Deleting" line, no delete
\* call), the worker holds the error for errChan, and the run does not end
\* with success.
C13_PodListFailureShortCircuits ==
  \A ns \in DOMAIN cluster :
    PodListFailed(ns) =>
      /\ Call("ListSecrets", ns, NoName) \notin listCalls
      /\ Call("ListServices", ns, NoName) \notin listCalls
      /\ NamesIn(logged \cup deleteCalls \cup removed, ns) = {}
      /\ \A r \in Workers :
           r.ns = ns => r.pc = "sendPodsErr" /\ r.err = Call("ListPods", ns, NoName)
      /\ Returned => result # Nil

\* a finished run with -all over two namespaces: the pod list of one failed,
\* the secrets of the other were cleaned
C13_Witness ==
  /\ allNamespaces
  /\ mainPc = "exited"
  /\ \E ns, other \in DOMAIN cluster :
       /\ PodListFailed(ns)
       /\ SecretsCleaned(other)
       /\ Secrets(deleteCalls) # {}

\* C14: the run reports success (cleanupAllNamespaces returns nil, the
\* process ends with exit code 0) only if no call failed: any failing
\* namespace, pod, secret or service list call and any failing delete call
\* makes the run end with an error and exit code 1.
C14_SuccessOnlyWithoutErrors ==
  /\ Returned /\ result = Nil => failedCalls = {}
  /\ mainPc = "exited" /\ failedCalls # {} => ExitCode = 1

\* a finished run with -all in which a service delete failed after secrets
\* had been deleted
C14_Witness ==
  /\ allNamespaces
  /\ mainPc = "exited"
  /\ ExitCode = 1
  /\ Secrets(removed) # {}
  /\ \E f \in failedCalls : f.op = "DeleteService"

\* the delete calls a further run of the reaper issues in namespace ns on the
\* cluster as this run has left it, whichever of its calls fail:
\* gatherPods and cleanupSecrets, and with -all cleanupServices as well
SecondRunSecretCalls(ns) ==
  UNION {CleanupSecrets(ListSecrets(ns), PodPrefixes(ListPods(ns)), ns, FALSE, F).calls :
           F \in SUBSET SecretCalls(ns, ListSecrets(ns))}

SecondRunServiceCalls(ns) ==
  IF allNamespaces
  THEN UNION {CleanupServices(ListServices(ns), PodPrefixes(ListPods(ns)), ns, FALSE, F).calls :
                F \in SUBSET ServiceCalls(ns, ListServices(ns))}
  ELSE {}

\* C15: idempotence. After a live run that ended with success (it removed
\* every resource it classified DELETE), a second run on the unchanged
\* cluster issues no delete call, in no namespace.
C15_SecondRunDeletesNothing ==
  mainPc = "exited" /\ ~dryRun /\ result = Nil =>
    \A ns \in DOMAIN cluster :
      /\ SecondRunSecretCalls(ns) = {}
      /\ SecondRunServiceCalls(ns) = {}

\* a live run with -all that ended with success and removed secrets and
\* services
C15_Witness ==
  /\ allNamespaces
  /\ mainPc = "exited"
  /\ ~dryRun
  /\ result = Nil
  /\ Secrets(removed) # {}
  /\ Services(removed) # {}

\* C16: one reap of a namespace lists the pods, then cleans the secrets, then
\* cleans the services, with -all and with -namespace alike: a run that ended
\* with success has reaped every namespace it was asked to reap, its orphaned
\* "an-config" services included.
C16_ReapCoversServices ==
  mainPc = "exited" /\ result = Nil => \A ns \in DOMAIN cluster : Reaped(ns)

\* the workers that hold a namespace: between the receive from namespaceChan
\* and the end of that iteration (or the return after a pod error)
InFlight == {r \in Workers : r.pc \notin {"recv", "done"}}

\* the number of workers that hold namespace ns
InFlightOn(ns) ==
  LET rs == {r \in InFlight : r.ns = ns}
  IN  IF rs = {} THEN 0 ELSE BagCardinality([r \in rs |-> CopiesIn(r, workers)])

\* C17: at most numWorkers namespace reaps are in flight at any moment, no
\* namespace is held by two workers at once, and every namespace sent on
\* namespaceChan is received by exactly one worker: the receives are the
\* sends, in order and without repetition.
C17_EachNamespaceOneWorker ==
  /\ BagCardinality(workers) \in {0, numWorkers}
  /\ \A r \in InFlight : r.ns \in DOMAIN cluster
  /\ \A ns \in DOMAIN cluster : InFlightOn(ns) <= 1
  /\ Len(taken) <= Len(nsItems)
  /\ \A i \in 1..Len(taken) : taken[i] = nsItems[i]
  /\ \A i, j \in 1..Len(taken) : taken[i] = taken[j] => i = j
  /\ prodPc # "none" => Len(taken) = prodIdx - 1

\* every worker of a pool of two holds a namespace of its own
C17_Witness ==
  /\ numWorkers = 2
  /\ Len(taken) = 2
  /\ \A ns \in DOMAIN cluster : InFlightOn(ns) = 1

\* the orders in which the gateway may list the items of a sequence
Orders(items) ==
  {[i \in 1..Len(items) |-> items[p[i]]] : p \in Permutations(1..Len(items))}

\* C18: the set of secrets cleanupSecrets deletes does not depend on the
\* order of the secret list: a live pass without failing call has issued the
\* delete calls that the pass over any other order of the same list issues.
C18_OrderIndependent ==
  \A ns \in DOMAIN cluster :
    ~dryRun /\ SecretsCleaned(ns) /\ failedCalls = {} =>
      \A items \in Orders(cluster[ns].secrets) :
        CleanupSecrets(items, PrefixesOf(ns), ns, FALSE, {}).calls
          = NamesIn(Secrets(deleteCalls), ns)

\* errChan is closed
ErrChanClosed == closerPc = "done"

\* C19: errChan is closed only after every worker has returned (wg.Wait), so
\* no worker holds or will produce a value for the closed channel, and the
\* collecting loop sees the closure only when every error a worker produced
\* has been received.
C19_CloseAfterAllWorkersDone ==
  ErrChanClosed =>
    /\ wg = 0
    /\ BagCardinality(workers) = numWorkers
    /\ \A r \in Workers : r.pc = "done"
    /\ WorkerFailures \subseteq received

\* errChan closed after two workers reaped two namespaces and the collecting
\* loop ended on the closure
C19_Witness ==
  /\ ErrChanClosed
  /\ numWorkers = 2
  /\ Len(taken) = 2
  /\ mainPc = "returned"
  /\ result = Nil

(***************************************************************************)
(* The resource-level variant: cleanupSecrets of src/main.go, called by    *)
(* main for the namespace of the -namespace flag.  It lists the secrets,   *)
(* starts numWorkers workers on one unbuffered secretChan, a goroutine     *)
(* that feeds the secrets and one that closes errChan after wg.Wait().     *)
(* Each worker takes secrets until secretChan is closed and then lists the *)
(* pods and the services of the namespace and cleans the services itself.  *)
(* One step is one gateway call, one channel operation or one loop         *)
(* iteration, so that the workers interleave on the same namespace.        *)
(* A Delete of an object that is already gone returns an error (NotFound); *)
(* any other call fails or succeeds.                                       *)
(***************************************************************************)
\* strings.HasSuffix(s, suffix)
HasSuffix(s, suffix) ==
  /\ Len(s) >= Len(suffix)
  /\ SubSeq(s, Len(s) - Len(suffix) + 1, Len(s)) = suffix

\* isEmptyOwnerReference(secret): the secret has no owner reference
IsEmptyOwnerReference(namespace, name) == name \notin cluster[namespace].owned

\* the condition under which a worker deletes the secret it received
ResourceSecretShouldDelete(namespace, name) ==
  /\ HasSuffix(name, Certificate)
  /\ IsEmptyOwnerReference(namespace, name)
  /\ ~Contains(name, Root)

\* shouldDelete of a worker's service loop
ResourceServiceShouldDelete(name, podPrefixes) ==
  \A i \in 1..Len(podPrefixes) :
    Contains(name, AnConfig) /\ ~Contains(name, podPrefixes[i])

\* a worker of cleanupSecrets blocked in "for secret := range secretChan"
SecretWaiting ==
  [pc |-> "recv", secret |-> NoName, pods |-> << >>, items |-> << >>, idx |-> 0,
   err |-> Nil]

\* a worker of cleanupSecrets that has returned
SecretDone == [SecretWaiting EXCEPT !.pc = "done"]

\* the namespaces cleanupSecrets of src/main.go is run on: the profiles, with
\* or without an owner reference on one of the certificate secrets
ResourceNamespaces ==
  {[pods |-> Profiles[i].pods, secrets |-> Profiles[i].secrets,
    services |-> Profiles[i].services, owned |-> o] :
     i \in 1..Len(Profiles), o \in {{}, {SecZ}}}

\* main has parsed -namespace and calls cleanupSecrets(clientset, namespace,
\* dryRun)
ResourceInit ==
  /\ dryRun \in BOOLEAN
  /\ allNamespaces = FALSE
  /\ nsFlag = 1
  /\ numWorkers \in 1..MaxWorkers
  /\ \E t \in ResourceNamespaces : cluster = << t >>
  /\ mainPc = "listSecrets"
  /\ removed = {}
  /\ deleteCalls = {}
  /\ repeatedCalls = {}
  /\ logged = {}
  /\ listCalls = {}
  /\ failedCalls = {}
  /\ mainPods = << >>
  /\ result = Nil
  /\ workers = EmptyBag
  /\ nsItems = << >>
  /\ prodPc = "none"
  /\ prodIdx = 0
  /\ closerPc = "none"
  /\ wg = 0
  /\ received = {}
  /\ taken = << >>
  /\ secretItems = << >>

\* the variables cleanupSecrets of src/main.go leaves alone
resourceFrame == << clusterVars, mainPods, nsItems, taken >>

\* secrets.List, then the workers (wg.Add(1) each), the feeding goroutine and
\* the closing goroutine are started and main enters the collecting loop
SecretsListAndStart ==
  /\ mainPc = "listSecrets"
  /\ LET call == Call("ListSecrets", nsFlag, NoName)
     IN  /\ listCalls' = listCalls \cup {call}
         /\ \/ /\ failedCalls' = failedCalls \cup {call}
               /\ result' = call
               /\ mainPc' = "returned"
               /\ UNCHANGED << secretItems, workers, wg, prodPc, prodIdx, closerPc >>
            \/ /\ secretItems' = ListSecrets(nsFlag)
               /\ workers' = [r \in {SecretWaiting} |-> numWorkers]
               /\ wg' = numWorkers
               /\ prodPc' = "send"
               /\ prodIdx' = 1
               /\ closerPc' = "wait"
               /\ mainPc' = "collect"
               /\ UNCHANGED << failedCalls, result >>
  /\ UNCHANGED << resourceFrame, removed, deleteCalls, repeatedCalls, logged, received >>

\* secretChan <- secret, received by "for secret := range secretChan" of a
\* waiting worker
SecretWorkerReceive(r) ==
  /\ Alive
  /\ r.pc = "recv"
  /\ prodPc = "send"
  /\ prodIdx <= Len(secretItems)
  /\ workers' = Moved(r, [r EXCEPT !.pc = "secret", !.secret = secretItems[prodIdx]])
  /\ prodIdx' = prodIdx + 1
  /\ UNCHANGED << resourceFrame, gatewayVars, secretItems, mainPc, result, prodPc,
                  closerPc, wg, received >>

\* the feeding goroutine has sent every secret: the deferred close(secretChan)
SecretFeederClose ==
  /\ Alive
  /\ prodPc = "send"
  /\ prodIdx > Len(secretItems)
  /\ prodPc' = "done"
  /\ UNCHANGED << resourceFrame, gatewayVars, secretItems, mainPc, result, workers,
                  prodIdx, closerPc, wg, received >>

\* a Delete call of worker r for the object name of the given kind: it
\* removes the object and the worker goes on as ok, or it returns an error
\* (always so when the object is already gone) and the worker goes on as
\* failed
DeleteCall(kind, op, name, r, ok, failed) ==
  LET res == Resource(kind, nsFlag, name)
      call == Call(op, nsFlag, name)
  IN  /\ deleteCalls' = deleteCalls \cup {res}
      /\ repeatedCalls' = repeatedCalls \cup ({res} \cap deleteCalls)
      /\ \/ /\ res \notin removed
            /\ removed' = removed \cup {res}
            /\ workers' = Moved(r, ok)
            /\ UNCHANGED failedCalls
         \/ /\ failedCalls' = failedCalls \cup {call}
            /\ workers' = Moved(r, [failed EXCEPT !.err = call])
            /\ UNCHANGED removed

\* one iteration of the secret loop of a worker: the test, the "Deleting"
\* line and, in live mode, the Delete call
SecretWorkerClassify(r) ==
  /\ Alive
  /\ r.pc = "secret"
  /\ LET next == [r EXCEPT !.pc = "recv", !.secret = NoName]
     IN  IF ResourceSecretShouldDelete(nsFlag, r.secret)
         THEN /\ logged' = logged \cup {Resource("secret", nsFlag, r.secret)}
              /\ IF dryRun
                 THEN /\ workers' = Moved(r, next)
                      /\ UNCHANGED << removed, deleteCalls, repeatedCalls, failedCalls >>
                 ELSE DeleteCall("secret", "DeleteSecret", r.secret, r, next,
                                 [next EXCEPT !.pc = "sendSecretErr"])
         ELSE /\ workers' = Moved(r, next)
              /\ UNCHANGED << removed, deleteCalls, repeatedCalls, logged, failedCalls >>
  /\ UNCHANGED << resourceFrame, listCalls, secretItems, mainPc, result, prodPc,
                  prodIdx, closerPc, wg, received >>

\* the range over the closed secretChan ends, then Pods(namespace).List and
\* the prefixes of the conforming pod names
SecretWorkerListPods(r) ==
  /\ Alive
  /\ r.pc = "recv"
  /\ prodPc = "done"
  /\ LET call == Call("ListPods", nsFlag, NoName)
     IN  /\ listCalls' = listCalls \cup {call}
         /\ \/ /\ failedCalls' = failedCalls \cup {call}
               /\ workers' = Moved(r, [r EXCEPT !.pc = "sendListErr", !.err = call])
            \/ /\ workers' = Moved(r, [r EXCEPT !.pc = "listServices",
                                                 !.pods = PodPrefixes(ListPods(nsFlag))])
               /\ UNCHANGED failedCalls
  /\ UNCHANGED << resourceFrame, removed, deleteCalls, repeatedCalls, logged,
                  secretItems, mainPc, result, prodPc, prodIdx, closerPc, wg, received >>

\* Services(namespace).List of a worker
SecretWorkerListServices(r) ==
  /\ Alive
  /\ r.pc = "listServices"
  /\ LET call == Call("ListServices", nsFlag, NoName)
     IN  /\ listCalls' = listCalls \cup {call}
         /\ \/ /\ failedCalls' = failedCalls \cup {call}
               /\ workers' = Moved(r, [r EXCEPT !.pc = "sendListErr", !.err = call])
            \/ /\ workers' = Moved(r, [r EXCEPT !.pc = "service",
                                                 !.items = ListServices(nsFlag),
                                                 !.idx = 1])
               /\ UNCHANGED failedCalls
  /\ UNCHANGED << resourceFrame, removed, deleteCalls, repeatedCalls, logged,
                  secretItems, mainPc, result, prodPc, prodIdx, closerPc, wg, received >>

\* one iteration of the service loop of a worker: shouldDelete, the
\* "Deleting" line and, in live mode, the Delete call
SecretWorkerService(r) ==
  /\ Alive
  /\ r.pc = "service"
  /\ r.idx <= Len(r.items)
  /\ LET name == r.items[r.idx]
         next == [r EXCEPT !.idx = r.idx + 1]
     IN  IF ResourceServiceShouldDelete(name, r.pods)
         THEN /\ logged' = logged \cup {Resource("service", nsFlag, name)}
              /\ IF dryRun
                 THEN /\ workers' = Moved(r, next)
                      /\ UNCHANGED << removed, deleteCalls, repeatedCalls, failedCalls >>
                 ELSE DeleteCall("service", "DeleteService", name, r, next,
                                 [r EXCEPT !.pc = "sendServiceErr"])
         ELSE /\ workers' = Moved(r, next)
              /\ UNCHANGED << removed, deleteCalls, repeatedCalls, logged, failedCalls >>
  /\ UNCHANGED << resourceFrame, listCalls, secretItems, mainPc, result, prodPc,
                  prodIdx, closerPc, wg, received >>

\* the service loop is over: the worker returns and the deferred wg.Done()
\* runs
SecretWorkerReturn(r) ==
  /\ Alive
  /\ r.pc = "service"
  /\ r.idx > Len(r.items)
  /\ workers' = Moved(r, SecretDone)
  /\ wg' = wg - 1
  /\ UNCHANGED << resourceFrame, gatewayVars, secretItems, mainPc, result, prodPc,
                  prodIdx, closerPc, received >>

\* the positions at which a worker of cleanupSecrets sends on errChan
SecretSendPcs == {"sendSecretErr", "sendListErr", "sendServiceErr"}

\* the worker once its send on errChan was taken: after a secret delete error
\* it waits for the next secret, after a list error it returns, after a
\* service delete error it goes on with the next service
AfterSecretSend(r) ==
  CASE r.pc = "sendSecretErr" -> [r EXCEPT !.pc = "recv", !.err = Nil]
    [] r.pc = "sendListErr" -> SecretDone
    [] r.pc = "sendServiceErr" ->
         [r EXCEPT !.pc = "service", !.idx = r.idx + 1, !.err = Nil]

\* errChan <- err of a worker, received by "for err := range errChan": the
\* error is not nil, so cleanupSecrets returns it
SecretWorkerSendAndCollect(r) ==
  /\ Alive
  /\ mainPc = "collect"
  /\ r.pc \in SecretSendPcs
  /\ workers' = Moved(r, AfterSecretSend(r))
  /\ wg' = IF AfterSecretSend(r).pc = "done" THEN wg - 1 ELSE wg
  /\ received' = received \cup {r.err}
  /\ result' = r.err
  /\ mainPc' = "returned"
  /\ UNCHANGED << resourceFrame, gatewayVars, secretItems, prodPc, prodIdx, closerPc >>

\* wg.Wait() returns and errChan is closed
SecretsWaitAndClose ==
  /\ Alive
  /\ closerPc = "wait"
  /\ wg = 0
  /\ closerPc' = "done"
  /\ UNCHANGED << resourceFrame, gatewayVars, secretItems, mainPc, result, workers,
                  prodPc, prodIdx, wg, received >>

\* the range over the closed errChan ends: return nil
SecretsCollectEnd ==
  /\ mainPc = "collect"
  /\ closerPc = "done"
  /\ mainPc' = "returned"
  /\ UNCHANGED << resourceFrame, gatewayVars, secretItems, result, workers, prodPc,
                  prodIdx, closerPc, wg, received >>

\* main after cleanupSecrets: os.Exit(1) on an error, else main returns;
\* either way the process and all its goroutines end
SecretsMainExit ==
  /\ mainPc = "returned"
  /\ mainPc' = "exited"
  /\ UNCHANGED << resourceFrame, gatewayVars, secretItems, result, workers, prodPc,
                  prodIdx, closerPc, wg, received >>

ResourceNext ==
  \/ SecretsListAndStart
  \/ \E r \in Workers : SecretWorkerReceive(r)
  \/ SecretFeederClose
  \/ \E r \in Workers : SecretWorkerClassify(r)
  \/ \E r \in Workers : SecretWorkerListPods(r)
  \/ \E r \in Workers : SecretWorkerListServices(r)
  \/ \E r \in Workers : SecretWorkerService(r)
  \/ \E r \in Workers : SecretWorkerReturn(r)
  \/ \E r \in Workers : SecretWorkerSendAndCollect(r)
  \/ SecretsWaitAndClose
  \/ SecretsCollectEnd
  \/ SecretsMainExit

ResourceSpec == ResourceInit /\ [][ResourceNext]_vars

\* C20: in cleanupSecrets of src/main.go every secret and every service gets
\* at most one delete call per invocation: under no interleaving of the
\* workers is a delete call issued for a resource that already had one.
C20_AtMostOneDeleteCall == repeatedCalls = {}

====
